---- MODULE Spec2Model ----
(***************************************************************************)
(* A model of firmware/scripts/descriptorgen.py: the USB descriptor        *)
(* generator.  main() parses descriptor elements into a builder, compiles  *)
(* the builder into a DescriptorCollection (an indexing loop followed by a *)
(* post_parse loop) and prints the generated source.                       *)
(*                                                                         *)
(* Objects are modelled by position: a descriptor object is its position   *)
(* in `nodes` (the order in which the descriptors were constructed), and a *)
(* content node is the pair (descriptor, position among its children).     *)
(* Python dicts are sequences of [key, val] entries in insertion order.    *)
(***************************************************************************)
EXTENDS Integers, Sequences, FiniteSets, TLC

VARIABLES
    pc,             \* position of main(): parse, index, resolve, emit, done, error
    err,            \* the exception that ended the run, "none" while there is none
    nodes,          \* the Descriptor objects constructed so far, in discovery order
    descriptors,    \* DescriptorCollectionBuilder.descriptors: type -> [objects]
    max_endpoints,  \* DescriptorCollection.max_endpoints
    endpoint,       \* DescriptorCollection.__endpoint
    top,            \* DescriptorCollection.top: type -> [objects]
    by_id,          \* DescriptorCollection.by_id: id -> object
    by_type,        \* DescriptorCollection.by_type: type -> [objects]
    indexes,        \* DescriptorCollection.indexes: type -> next index
    index,          \* Descriptor._index of every object, Unset while it has none
    resolved,       \* the private field written by each content node's post_parse
    it,             \* position of the running `for typenum, desc in builder` loop
    ci,             \* position of the running `for c in self.children` loop
    output          \* the lines print() wrote

vars == <<pc, err, nodes, descriptors, max_endpoints, endpoint, top, by_id,
          by_type, indexes, index, resolved, it, ci, output>>

-----------------------------------------------------------------------------
(* Values *)

\* Python's None, as a dictionary key and attribute value.  The id strings
\* of the model are drawn from IdPool, which does not contain it.
None == "None"

\* A Descriptor that has no _index attribute yet (index is a natural number).
Unset == 0 - 1

\* The length that stands for a RecursionError raised while it was computed.
Overflow == 0 - 1

-----------------------------------------------------------------------------
(* Python dict, insertion ordered *)

DictHas(d, k) == \E i \in DOMAIN d : d[i].key = k

DictGet(d, k) == d[CHOOSE i \in DOMAIN d : d[i].key = k].val

DictSet(d, k, v) ==
    IF DictHas(d, k)
    THEN [i \in DOMAIN d |-> IF d[i].key = k THEN [key |-> k, val |-> v] ELSE d[i]]
    ELSE Append(d, [key |-> k, val |-> v])

\* d[k] = [v] if k not in d, else d[k].append(v)
DictAppend(d, k, v) ==
    IF DictHas(d, k) THEN DictSet(d, k, Append(DictGet(d, k), v))
    ELSE DictSet(d, k, <<v>>)

RECURSIVE Flatten(_)
\* for n, arry in d.items(): for x in arry: yield n, x
Flatten(d) ==
    IF d = <<>> THEN <<>>
    ELSE [i \in DOMAIN d[1].val |-> <<d[1].key, d[1].val[i]>>] \o Flatten(Tail(d))

RECURSIVE SumSeq(_)
SumSeq(s) == IF s = <<>> THEN 0 ELSE s[1] + SumSeq(Tail(s))

RECURSIVE Concat(_)
Concat(ss) == IF ss = <<>> THEN <<>> ELSE ss[1] \o Concat(Tail(ss))

-----------------------------------------------------------------------------
(* Elements: the xml.etree elements handed to the builder *)

\* el.text of an element without text
NoText == 0 - 1

\* An element with the attributes the handlers read; an attribute an element
\* does not carry holds the default below (childof/id None = absent).
Element(tag) ==
    [tag |-> tag, id |-> None, name |-> "", type |-> 0, childof |-> None,
     topattr |-> FALSE, wIndex |-> 0, size |-> 0, text |-> NoText, str |-> <<>>,
     all |-> FALSE, refid |-> "", associated |-> FALSE, children |-> <<>>]

\* One legal-child set for every parent: any content tag under any element
ChildTags_anywhere(tag) ==
    {"hidden", "byte", "word", "string", "length", "type", "ref", "index",
     "count", "foreach", "children", "inendpoint", "outendpoint", "raw", "echo"}

\* @child_of: the tags match_child accepts under an element of tag `tag`
ChildTags(tag) ==
    CASE tag = "descriptor" ->
            {"hidden", "byte", "word", "string", "length", "type", "ref", "index",
             "count", "foreach", "children", "inendpoint", "outendpoint", "raw"}
      [] tag = "foreach" -> {"echo"}
      [] OTHER -> {}

\* The classes derived from BinaryContent (isinstance(c, BinaryContent))
BinaryContent ==
    {"hidden", "byte", "word", "string", "length", "type", "ref", "index",
     "count", "echo", "inendpoint", "outendpoint"}

\* The classes that have __len__ (hasattr(c, '__len__'))
HasLen == BinaryContent \cup {"foreach", "children"}

\* The classes that have to_source (hasattr(c, 'to_source'))
HasToSource == BinaryContent \cup {"foreach", "children", "raw"}

\* The constructors that raise ValueError on an empty el.text
NeedsText(e) ==
    \/ e.tag \in {"hidden", "byte", "word"} /\ e.text = NoText
    \/ e.tag = "string" /\ e.str = <<>>

RECURSIVE ParseFails(_)
\* TagHandler.__init__ raises ValueError somewhere below el: a child that
\* match_child rejects, or a child whose own constructor raises
ParseFails(el) ==
    \E i \in DOMAIN el.children :
        LET e == el.children[i] IN
            \/ e.tag \notin ChildTags(el.tag)
            \/ NeedsText(e)
            \/ ParseFails(e)

\* self.size of a SizedContent: the size argument of the subclass, else the
\* size attribute
SizeOf(e) ==
    CASE e.tag \in {"byte", "inendpoint", "outendpoint"} -> 1
      [] e.tag = "word" -> 2
      [] OTHER -> e.size

RECURSIVE Node(_)
\* The content node constructed from a child element.
Node(e) ==
    [kind |-> e.tag, id |-> e.id, name |-> e.name, size |-> SizeOf(e),
     text |-> e.text, str |-> e.str, all |-> e.all, refid |-> e.refid,
     type |-> e.type, associated |-> e.associated,
     dir_in |-> (e.tag = "inendpoint"),
     children |-> [i \in DOMAIN e.children |-> Node(e.children[i])]]

\* Descriptor.__init__
Descriptor(el) ==
    [type |-> el.type,
     top |-> (el.childof = None) \/ el.topattr,
     parentid |-> el.childof,
     wIndex |-> el.wIndex,
     id |-> el.id,
     children |-> [i \in DOMAIN el.children |-> Node(el.children[i])]]

\* The private field of a node before its post_parse ran
Unresolved == [set |-> FALSE, val |-> 0, descs |-> <<>>]

-----------------------------------------------------------------------------
(* The registry: lookups and the endpoint allocator *)

\* A builder that kept one list: the descriptors in discovery order
Items_discovery == [o \in DOMAIN nodes |-> <<nodes[o].type, o>>]

\* for typenum, desc in builder
Items == Flatten(descriptors)

\* DescriptorCollection.find_by_id: the object, or None (objects are positions
\* from 1 on, 0 stands for None)
find_by_id(idname) ==
    IF DictHas(by_id, idname) THEN DictGet(by_id, idname) ELSE 0

\* DescriptorCollection.find_by_type
find_by_type(typenum) ==
    IF DictHas(by_type, typenum) THEN DictGet(by_type, typenum) ELSE <<>>

\* An allocator whose limit check is off by one
reserve_endpoint_late ==
    IF endpoint > max_endpoints
    THEN [err |-> "BadDefinitionError: Maximum number of endpoints exceeded",
          endp |-> 0, counter |-> endpoint]
    ELSE [err |-> "none", endp |-> endpoint, counter |-> endpoint + 1]

\* DescriptorCollection.reserve_endpoint: the exception raised (or "none"),
\* the value returned and the counter afterwards
reserve_endpoint ==
    IF endpoint >= max_endpoints
    THEN [err |-> "BadDefinitionError: Maximum number of endpoints exceeded",
          endp |-> 0, counter |-> endpoint]
    ELSE [err |-> "none", endp |-> endpoint, counter |-> endpoint + 1]

-----------------------------------------------------------------------------
(* post_parse hooks.  Each gives the exception raised (or "none"), the     *)
(* node's private field afterwards and the endpoint counter afterwards.    *)

Hook(e, r, c) == [err |-> e, res |-> r, counter |-> c]

Resolved(v, ds) == [set |-> TRUE, val |-> v, descs |-> ds]

\* TagHandler.post_parse of a node without children: nothing happens
TagHandler_post_parse(o, j) == Hook("none", resolved[o][j], endpoint)

\* A reference that takes the index of the descriptor it is in
DescriptorRef_post_parse_own(o, j) ==
    Hook("none", Resolved(index[o], <<>>), endpoint)

\* A reference that takes index 0 when its target is missing
DescriptorRef_post_parse_lenient(o, j) ==
    LET d == find_by_id(nodes[o].children[j].refid) IN
        Hook("none", Resolved(IF d = 0 THEN 0 ELSE index[d], <<>>), endpoint)

\* DescriptorRef.post_parse: find_by_id(refid).index; None has no .index
DescriptorRef_post_parse(o, j) ==
    LET d == find_by_id(nodes[o].children[j].refid) IN
        IF d = 0 THEN Hook("AttributeError", resolved[o][j], endpoint)
        ELSE Hook("none", Resolved(index[d], <<>>), endpoint)

\* DescriptorIndex.post_parse
DescriptorIndex_post_parse(o, j) ==
    Hook("none", Resolved(index[o], <<>>), endpoint)

\* A count that ignores the associated attribute
DescriptorCount_post_parse_all(o, j) ==
    Hook("none",
         Resolved(Len(find_by_type(nodes[o].children[j].type)), <<>>), endpoint)

\* DescriptorCount.post_parse (self.parent is the enclosing descriptor)
DescriptorCount_post_parse(o, j) ==
    LET n == nodes[o].children[j]
        ds == SelectSeq(find_by_type(n.type),
                        LAMBDA d : ~n.associated \/ nodes[d].parentid = nodes[o].id)
    IN  Hook("none", Resolved(Len(ds), <<>>), endpoint)

\* A foreach that also matches the descriptor it is in
ForeachDescriptor_post_parse_self(o, j) ==
    LET n == nodes[o].children[j]
        ds == SelectSeq(find_by_type(n.type),
                        LAMBDA d : ~n.associated
                                   \/ nodes[d].parentid = nodes[o].id)
    IN  Hook("none", Resolved(0, ds), endpoint)

\* ForeachDescriptor.post_parse (does not call super().post_parse)
ForeachDescriptor_post_parse(o, j) ==
    LET n == nodes[o].children[j]
        ds == SelectSeq(find_by_type(n.type),
                        LAMBDA d : o # d /\ (~n.associated
                                             \/ nodes[d].parentid = nodes[o].id))
    IN  Hook("none", Resolved(0, ds), endpoint)

\* ChildrenContent.post_parse
ChildrenContent_post_parse(o, j) ==
    LET n == nodes[o].children[j]
        ds == SelectSeq(find_by_type(n.type),
                        LAMBDA d : nodes[d].parentid = nodes[o].id)
    IN  Hook("none", Resolved(0, ds), endpoint)

\* Endpoint.post_parse
Endpoint_post_parse(o, j) ==
    LET r == reserve_endpoint IN
        IF r.err # "none" THEN Hook(r.err, resolved[o][j], r.counter)
        ELSE Hook("none", Resolved(r.endp, <<>>), r.counter)

\* c.post_parse(descriptor_collection), dispatched on the node's class
post_parse(o, j) ==
    LET k == nodes[o].children[j].kind IN
        CASE k = "ref" -> DescriptorRef_post_parse(o, j)
          [] k = "index" -> DescriptorIndex_post_parse(o, j)
          [] k = "count" -> DescriptorCount_post_parse(o, j)
          [] k = "foreach" -> ForeachDescriptor_post_parse(o, j)
          [] k = "children" -> ChildrenContent_post_parse(o, j)
          [] k \in {"inendpoint", "outendpoint"} -> Endpoint_post_parse(o, j)
          [] OTHER -> TagHandler_post_parse(o, j)

-----------------------------------------------------------------------------
(* Lengths and generated content *)

\* sum([...]) over lengths, one of which may have raised
SumLen(s) == IF \E i \in DOMAIN s : s[i] < 0 THEN Overflow ELSE SumSeq(s)

\* The nodes EchoContent.__to_echo collects for the echo child e of the
\* foreach node (o, j): pairs <<descriptor, child position>>
to_echo(o, j, e) ==
    LET ds == resolved[o][j].descs IN
        Concat([k \in DOMAIN ds |->
            LET cs == nodes[ds[k]].children
                hit == SelectSeq([c \in DOMAIN cs |-> c],
                                 LAMBDA c : cs[c].kind \in BinaryContent
                                            /\ cs[c].name = e.name)
            IN  [c \in DOMAIN hit |-> <<ds[k], hit[c]>>]])

\* __len__ of a BinaryContent child of a descriptor
BinaryLen(n) == IF n.kind = "string" THEN 2 * Len(n.str) ELSE n.size

RECURSIVE NodeLen(_, _, _)
\* len(c) for the child j of descriptor o.  `fuel` counts the nested
\* ChildrenContent.__len__ calls still allowed: a chain longer than the
\* number of descriptors never ends, and Python raises RecursionError.
NodeLen(o, j, fuel) ==
    LET n == nodes[o].children[j] IN
        CASE n.kind = "foreach" ->
                SumLen([e \in DOMAIN n.children |->
                    LET te == to_echo(o, j, n.children[e]) IN
                        SumLen([c \in DOMAIN te |->
                            BinaryLen(nodes[te[c][1]].children[te[c][2]])])])
          [] n.kind = "children" ->
                IF fuel = 0 THEN Overflow
                ELSE LET ds == resolved[o][j].descs IN
                    SumLen([k \in DOMAIN ds |->
                        LET cs == nodes[ds[k]].children IN
                            SumLen([c \in DOMAIN cs |->
                                IF cs[c].kind \in HasLen
                                THEN NodeLen(ds[k], c, fuel - 1) ELSE 0])])
          [] OTHER -> BinaryLen(n)

\* A length that leaves out the length field itself
parent_length_others(o, j) ==
    LET cs == nodes[o].children IN
        SumLen([c \in DOMAIN cs |->
            IF cs[c].kind \in HasLen /\ c # j
               /\ (nodes[o].children[j].all \/ cs[c].kind # "children")
            THEN NodeLen(o, c, Len(nodes)) ELSE 0])

\* DescriptorLength.parent_length of the length node (o, j)
parent_length(o, j) ==
    LET cs == nodes[o].children IN
        SumLen([c \in DOMAIN cs |->
            IF cs[c].kind \in HasLen
               /\ (nodes[o].children[j].all \/ cs[c].kind # "children")
            THEN NodeLen(o, c, Len(nodes)) ELSE 0])

RECURSIVE BitOr(_, _)
\* Python's a | b on naturals
BitOr(a, b) ==
    IF a = 0 THEN b
    ELSE IF b = 0 THEN a
    ELSE (IF a % 2 = 1 \/ b % 2 = 1 THEN 1 ELSE 0) + 2 * BitOr(a \div 2, b \div 2)

\* Endpoint.endpoint: self.__endpoint | (0x80 if self.dir_in else 0)
Endpoint_endpoint(o, j) ==
    BitOr(resolved[o][j].val, IF nodes[o].children[j].dir_in THEN 128 ELSE 0)

\* self.contentfn() of the SizedContent (o, j)
contentfn(o, j) ==
    LET n == nodes[o].children[j] IN
        CASE n.kind = "length" -> parent_length(o, j)
          [] n.kind = "type" -> nodes[o].type
          [] n.kind \in {"ref", "index", "count"} -> resolved[o][j].val
          [] n.kind \in {"inendpoint", "outendpoint"} -> Endpoint_endpoint(o, j)
          [] OTHER -> n.text

\* One generated item: a byte of the array initialiser, or a chunk of raw text
Byte(v) == [raw |-> FALSE, v |-> v]
RawText(t) == [raw |-> TRUE, v |-> t]

RECURSIVE Pow256(_)
Pow256(i) == IF i = 0 THEN 1 ELSE 256 * Pow256(i - 1)

\* BinaryContent.__iter__ of the child j of descriptor o: SizedContent gives
\* ((content >> 8i) & 0xFF) for i in range(size), StringContent the UTF-16LE
\* byte pairs.  A content that raised gives the Overflow item.
NodeIter(o, j) ==
    LET n == nodes[o].children[j] IN
        IF n.kind = "string"
        THEN Concat([i \in DOMAIN n.str |-> <<Byte(n.str[i] % 256),
                                               Byte(n.str[i] \div 256)>>])
        ELSE LET v == contentfn(o, j) IN
            IF n.size > 0 /\ v < 0 THEN <<Byte(Overflow)>>
            ELSE [i \in 1..n.size |-> Byte((v \div Pow256(i - 1)) % 256)]

RECURSIVE NodeSource(_, _, _)
\* c.to_source() for the child j of descriptor o (the comment lines that
\* ChildrenContent puts around a nested descriptor are left out); `fuel` as
\* in NodeLen, for the nested Descriptor.to_source calls
NodeSource(o, j, fuel) ==
    LET n == nodes[o].children[j] IN
        CASE n.kind = "hidden" -> <<>>
          [] n.kind = "raw" -> <<RawText(n.text)>>
          [] n.kind = "foreach" ->
                Concat([e \in DOMAIN n.children |->
                    LET te == to_echo(o, j, n.children[e]) IN
                        Concat([c \in DOMAIN te |-> NodeIter(te[c][1], te[c][2])])])
          [] n.kind = "children" ->
                IF fuel = 0 THEN <<Byte(Overflow)>>
                ELSE LET ds == resolved[o][j].descs IN
                    Concat([k \in DOMAIN ds |->
                        LET cs == nodes[ds[k]].children IN
                            Concat([c \in DOMAIN cs |->
                                IF cs[c].kind \in HasToSource
                                THEN NodeSource(ds[k], c, fuel - 1) ELSE <<>>])])
          [] OTHER -> NodeIter(o, j)

\* Descriptor.to_source
Descriptor_to_source(o) ==
    LET cs == nodes[o].children IN
        Concat([c \in DOMAIN cs |->
            IF cs[c].kind \in HasToSource THEN NodeSource(o, c, Len(nodes))
            ELSE <<>>])

\* The lines of the generated source
Line(kind, o, items) ==
    [kind |-> kind, id |-> IF o = 0 THEN None ELSE nodes[o].id,
     type |-> IF o = 0 THEN 0 ELSE nodes[o].type,
     index |-> IF o = 0 THEN 0 ELSE index[o],
     wIndex |-> IF o = 0 THEN 0 ELSE nodes[o].wIndex,
     items |-> items]

\* An emitter that walks by_type instead of top
to_source_iter_by_type ==
    LET tops == Flatten(by_type) IN
        Concat([k \in DOMAIN tops |->
            <<Line("array", tops[k][2], <<>>),
              Line("content", tops[k][2], Descriptor_to_source(tops[k][2])),
              Line("end", tops[k][2], <<>>)>>])
        \o <<Line("table", 0, <<>>)>>
        \o [k \in DOMAIN tops |-> Line("row", tops[k][2], <<>>)]
        \o <<Line("sentinel", 0, <<>>), Line("end", 0, <<>>)>>

\* DescriptorCollection.to_source_iter
to_source_iter ==
    LET tops == Flatten(top) IN
        Concat([k \in DOMAIN tops |->
            <<Line("array", tops[k][2], <<>>),
              Line("content", tops[k][2], Descriptor_to_source(tops[k][2])),
              Line("end", tops[k][2], <<>>)>>])
        \o <<Line("table", 0, <<>>)>>
        \o [k \in DOMAIN tops |-> Line("row", tops[k][2], <<>>)]
        \o <<Line("sentinel", 0, <<>>), Line("end", 0, <<>>)>>

\* The join in to_source raised RecursionError
Raises(lines) ==
    \E l \in DOMAIN lines : \E i \in DOMAIN lines[l].items :
        ~lines[l].items[i].raw /\ lines[l].items[i].v < 0

-----------------------------------------------------------------------------
(* The run of main() *)

\* The most descriptors one run is given
MaxDescriptors == 3

\* max_endpoints=8, the default of DescriptorCollection.__init__
DefaultMaxEndpoints == 8

Init ==
    /\ pc = "parse"
    /\ err = "none"
    /\ nodes = <<>>
    /\ descriptors = <<>>
    /\ max_endpoints = DefaultMaxEndpoints
    /\ endpoint = 0
    /\ top = <<>>
    /\ by_id = <<>>
    /\ by_type = <<>>
    /\ indexes = <<>>
    /\ index = <<>>
    /\ resolved = <<>>
    /\ it = 1
    /\ ci = 1
    /\ output = <<>>

\* The run ends with the exception e
Raise(e) == pc' = "error" /\ err' = e

\* builder.add_descriptors(el) for a descriptor element: TagHandler.parse
\* constructs the Descriptor and its children (ValueError on a child the
\* schema rejects), and the builder files it under its type
add_descriptors(el) ==
    /\ pc = "parse"
    /\ el.tag = "descriptor"
    /\ Len(nodes) < MaxDescriptors
    /\ IF ParseFails(el)
       THEN /\ Raise("ValueError")
            /\ UNCHANGED <<nodes, descriptors, index, resolved>>
       ELSE /\ nodes' = Append(nodes, Descriptor(el))
            /\ descriptors' = DictAppend(descriptors, el.type, Len(nodes) + 1)
            /\ index' = Append(index, Unset)
            /\ resolved' = Append(resolved,
                                  [j \in DOMAIN el.children |-> Unresolved])
            /\ UNCHANGED <<pc, err>>
    /\ UNCHANGED <<max_endpoints, endpoint, top, by_id, by_type, indexes, it, ci,
                   output>>

\* DescriptorCollection.__init__ up to its first loop
DescriptorCollection_init(M) ==
    /\ pc = "parse"
    /\ pc' = "index"
    /\ endpoint' = 0
    /\ max_endpoints' = M
    /\ top' = <<>>
    /\ by_id' = <<>>
    /\ by_type' = <<>>
    /\ indexes' = <<>>
    /\ it' = 1
    /\ UNCHANGED <<err, nodes, descriptors, index, resolved, ci, output>>

\* builder.compile(): DescriptorCollection(self)
compile == DescriptorCollection_init(DefaultMaxEndpoints)

\* One index counter for all types
AssignedIndex_global(typenum) == it - 1

\* desc.index = self.indexes[typenum], after `if typenum not in self.indexes:
\* self.indexes[typenum] = 0`
AssignedIndex(typenum) ==
    IF DictHas(indexes, typenum) THEN DictGet(indexes, typenum) ELSE 0

\* if desc.id in self.by_id
IsDuplicate(desc) == DictHas(by_id, nodes[desc].id)

\* A single pass: resolution starts as soon as the first descriptor is indexed
index_descriptor_single_pass ==
    /\ pc = "index"
    /\ IF it > 1 \/ it > Len(Items)
       THEN /\ pc' = "resolve"
            /\ it' = 1
            /\ ci' = 1
            /\ UNCHANGED <<err, top, by_id, by_type, indexes, index>>
       ELSE LET typenum == Items[it][1]
                desc == Items[it][2]
            IN  /\ top' = IF nodes[desc].top THEN DictAppend(top, typenum, desc)
                          ELSE top
                /\ by_id' = DictSet(by_id, nodes[desc].id, desc)
                /\ by_type' = DictAppend(by_type, typenum, desc)
                /\ index' = [index EXCEPT ![desc] = AssignedIndex(typenum)]
                /\ indexes' = DictSet(indexes, typenum, AssignedIndex(typenum) + 1)
                /\ it' = it + 1
                /\ UNCHANGED <<pc, err, ci>>
    /\ UNCHANGED <<nodes, descriptors, max_endpoints, endpoint, resolved, output>>

\* One iteration of the first loop of DescriptorCollection.__init__ (or its
\* end): top, the duplicate check, by_id, by_type, the index
index_descriptor ==
    /\ pc = "index"
    /\ IF it > Len(Items)
       THEN /\ pc' = "resolve"
            /\ it' = 1
            /\ ci' = 1
            /\ UNCHANGED <<err, top, by_id, by_type, indexes, index>>
       ELSE LET typenum == Items[it][1]
                desc == Items[it][2]
            IN  /\ top' = IF nodes[desc].top THEN DictAppend(top, typenum, desc)
                          ELSE top
                /\ IF IsDuplicate(desc)
                   THEN /\ Raise("BadDefinitionError: Duplicate descriptor id")
                        /\ UNCHANGED <<by_id, by_type, indexes, index, it, ci>>
                   ELSE /\ by_id' = DictSet(by_id, nodes[desc].id, desc)
                        /\ by_type' = DictAppend(by_type, typenum, desc)
                        /\ index' = [index EXCEPT ![desc] = AssignedIndex(typenum)]
                        /\ indexes' = DictSet(indexes, typenum,
                                              AssignedIndex(typenum) + 1)
                        /\ it' = it + 1
                        /\ UNCHANGED <<pc, err, ci>>
    /\ UNCHANGED <<nodes, descriptors, max_endpoints, endpoint, resolved, output>>

\* One step of the second loop of DescriptorCollection.__init__: the
\* post_parse of the next child of the descriptor the loop is at, the move
\* to the next descriptor, or the end of the loop
post_parse_step ==
    /\ pc = "resolve"
    /\ IF it > Len(Items)
       THEN /\ pc' = "emit"
            /\ UNCHANGED <<err, endpoint, resolved, it, ci>>
       ELSE LET desc == Items[it][2] IN
            IF ci > Len(nodes[desc].children)
            THEN /\ it' = it + 1
                 /\ ci' = 1
                 /\ UNCHANGED <<pc, err, endpoint, resolved>>
            ELSE LET h == post_parse(desc, ci) IN
                 /\ endpoint' = h.counter
                 /\ resolved' = [resolved EXCEPT ![desc][ci] = h.res]
                 /\ IF h.err # "none"
                    THEN Raise(h.err) /\ UNCHANGED <<it, ci>>
                    ELSE ci' = ci + 1 /\ UNCHANGED <<pc, err, it>>
    /\ UNCHANGED <<nodes, descriptors, max_endpoints, top, by_id, by_type,
                   indexes, index, output>>

\* An emission that takes the descriptors out of top as it prints them
print_source_draining ==
    /\ pc = "emit"
    /\ LET lines == to_source_iter IN
        IF Raises(lines)
        THEN Raise("RecursionError") /\ UNCHANGED <<output, top>>
        ELSE pc' = "done" /\ output' = lines /\ top' = <<>> /\ UNCHANGED err
    /\ UNCHANGED <<nodes, descriptors, max_endpoints, endpoint, by_id,
                   by_type, indexes, index, resolved, it, ci>>

\* print(descriptors.to_source()): nothing is printed when the join raises
print_source ==
    /\ pc = "emit"
    /\ LET lines == to_source_iter IN
        IF Raises(lines)
        THEN Raise("RecursionError") /\ UNCHANGED output
        ELSE pc' = "done" /\ output' = lines /\ UNCHANGED err
    /\ UNCHANGED <<nodes, descriptors, max_endpoints, endpoint, top, by_id,
                   by_type, indexes, index, resolved, it, ci>>

\* What follows the parsing of the files
Pipeline == index_descriptor \/ post_parse_step \/ print_source

-----------------------------------------------------------------------------
(* The inputs: the descriptor elements the runs are given *)

\* How many descriptor types the inputs draw from
NumTypes == 2

Types == 1..NumTypes

\* The id strings of the inputs.  Ids are names, so a run in which no id is
\* given twice names its k-th descriptor IdPool[k].
IdPool == <<"a", "b", "c", "d", "e">>
IdNames == {IdPool[k] : k \in 1..MaxDescriptors}

\* <descriptor type= id= childof= top=> with the given children
DescriptorEl(type, id, childof, topattr, children) ==
    [Element("descriptor") EXCEPT !.type = type, !.id = id, !.childof = childof,
                                  !.topattr = topattr, !.children = children]

ByteEl(name, text) == [Element("byte") EXCEPT !.name = name, !.text = text]
ByteWithId(name, text, id) == [ByteEl(name, text) EXCEPT !.id = id]
HiddenEl(name, size, text) ==
    [Element("hidden") EXCEPT !.name = name, !.size = size, !.text = text]
LengthEl(size, all) ==
    [Element("length") EXCEPT !.name = "bLength", !.size = size, !.all = all]
TypeEl(size) == [Element("type") EXCEPT !.name = "bDescriptorType", !.size = size]
RefEl(refid) ==
    [Element("ref") EXCEPT !.name = "ref", !.size = 1, !.refid = refid]
IndexEl == [Element("index") EXCEPT !.name = "index", !.size = 1]
CountEl(type, associated) ==
    [Element("count") EXCEPT !.name = "count", !.size = 1, !.type = type,
                             !.associated = associated]
ChildrenEl(type) == [Element("children") EXCEPT !.type = type]
EchoEl(name) == [Element("echo") EXCEPT !.name = name]
ForeachEl(type, associated, echoes) ==
    [Element("foreach") EXCEPT !.type = type, !.associated = associated,
                               !.children = echoes]
InEndpointEl == [Element("inendpoint") EXCEPT !.name = "bEndpointAddress"]
OutEndpointEl == [Element("outendpoint") EXCEPT !.name = "bEndpointAddress"]

\* The k-th descriptor of a run: top-level, of any type, with its id or
\* without id attribute (None), holding its own index or two endpoints
IndexElements(k) ==
    {DescriptorEl(t, i, None, FALSE, cs) :
        t \in Types, i \in {IdPool[k], None},
        cs \in {<<IndexEl>>, <<InEndpointEl, OutEndpointEl>>}}

\* main() on descriptors of interleaved types
Next ==
    \/ \E el \in IndexElements(Len(nodes) + 1) : add_descriptors(el)
    \/ compile
    \/ Pipeline

Spec == Init /\ [][Next]_vars

\* The k-th descriptor of a run: of any type, holding a reference to any id
RefElements(k) ==
    {DescriptorEl(t, IdPool[k], None, FALSE, <<RefEl(r)>>) :
        t \in Types, r \in IdNames}

\* main() on descriptors that refer to each other
NextRef ==
    \/ \E el \in RefElements(Len(nodes) + 1) : add_descriptors(el)
    \/ compile
    \/ Pipeline

SpecRef == Init /\ [][NextRef]_vars

\* The largest max_endpoints a collection is constructed with, where the
\* constructor's argument is left open
MaxMaxEndpoints == 3

\* The k-th descriptor of a run: one or two endpoints of either direction
EndpointElements(k) ==
    {DescriptorEl(1, IdPool[k], None, FALSE, cs) :
        cs \in {<<InEndpointEl>>, <<OutEndpointEl>>,
                <<InEndpointEl, OutEndpointEl>>, <<OutEndpointEl, InEndpointEl>>}}

\* main() with DescriptorCollection(builder, max_endpoints=M) for any M
NextEndpoints ==
    \/ \E el \in EndpointElements(Len(nodes) + 1) : add_descriptors(el)
    \/ \E M \in 0..MaxMaxEndpoints : DescriptorCollection_init(M)
    \/ Pipeline

SpecEndpoints == Init /\ [][NextEndpoints]_vars

\* The k-th descriptor of a run: four or five IN endpoints, or a reference
ExhaustElements(k) ==
    {DescriptorEl(1, IdPool[k], None, FALSE, cs) :
        cs \in {[n \in 1..4 |-> InEndpointEl], [n \in 1..5 |-> InEndpointEl]}
               \cup {<<RefEl(r)>> : r \in IdNames}}

\* main() on inputs that can use up the eight endpoints
NextExhaust ==
    \/ \E el \in ExhaustElements(Len(nodes) + 1) : add_descriptors(el)
    \/ compile
    \/ Pipeline

SpecExhaust == Init /\ [][NextExhaust]_vars

\* The k-th descriptor of a run: of type 1 or 2, with or without id, with or
\* without the parent IdPool[1], counting the descriptors of type 1 that are
\* associated with it and all descriptors of type 1
CountElements(k) ==
    {DescriptorEl(t, i, p, FALSE, <<CountEl(1, TRUE), CountEl(1, FALSE)>>) :
        t \in 1..2, i \in {IdPool[k], None}, p \in {None, IdPool[1]}}

\* main() on inputs with count nodes
NextCount ==
    \/ \E el \in CountElements(Len(nodes) + 1) : add_descriptors(el)
    \/ compile
    \/ Pipeline

SpecCount == Init /\ [][NextCount]_vars

\* The children of the device descriptor of the end-to-end scenario: a length,
\* a type, the bytes 0x12 and 0x34 and an IN endpoint
ScenarioChildren ==
    <<LengthEl(1, FALSE), TypeEl(1), ByteEl("b1", 18), ByteEl("b2", 52),
      InEndpointEl>>

\* The ids of the descriptors of the scenario's runs
ScenarioIds == <<"dev", "cfg", "itf", "hid", "ep">>

\* The k-th descriptor of a run: a top-level descriptor of type 1 or a child
\* of "dev" of type 2, whose length field is followed by plain, hidden, nested
\* or echoed content
LengthElements(k) ==
    {DescriptorEl(tp[1], ScenarioIds[k], tp[2], FALSE, cs) :
        tp \in {<<1, None>>, <<2, "dev">>},
        cs \in {ScenarioChildren,
                <<LengthEl(1, FALSE), HiddenEl("b1", 2, 18), ByteEl("b2", 52)>>,
                <<LengthEl(1, FALSE), ChildrenEl(2), ByteEl("b1", 18)>>,
                <<LengthEl(1, TRUE), ChildrenEl(2)>>,
                <<LengthEl(2, FALSE), ForeachEl(2, FALSE, <<EchoEl("b1")>>)>>}}

\* main() on inputs with length fields
NextLength ==
    \/ \E el \in LengthElements(Len(nodes) + 1) : add_descriptors(el)
    \/ compile
    \/ Pipeline

SpecLength == Init /\ [][NextLength]_vars

\* The k-th descriptor of a run: without childof, with childof, or with
\* childof and top, holding one byte that may carry the id IdPool[1]
TopElements(k) ==
    {DescriptorEl(t, IdPool[k], pt[1], pt[2], <<ByteWithId("b", 1, bid)>>) :
        t \in 1..2,
        pt \in {<<None, FALSE>>, <<IdPool[1], FALSE>>, <<IdPool[1], TRUE>>},
        bid \in {None, IdPool[1]}}

\* main() on inputs with and without top-level descriptors
NextTop ==
    \/ \E el \in TopElements(Len(nodes) + 1) : add_descriptors(el)
    \/ compile
    \/ Pipeline

SpecTop == Init /\ [][NextTop]_vars

\* The k-th descriptor of a run: a top-level descriptor of type 1 or a child
\* of IdPool[1] of another type, holding nodes of every kind that has a
\* post_parse of its own
PhaseElements(k) ==
    {DescriptorEl(t, IdPool[k], IF t = 1 THEN None ELSE IdPool[1], FALSE, cs) :
        t \in Types,
        cs \in {<<RefEl(IdPool[1]), IndexEl, CountEl(1, FALSE)>>,
                <<LengthEl(1, FALSE), ForeachEl(1, FALSE, <<EchoEl("b")>>),
                  ByteEl("b", 1)>>,
                <<LengthEl(1, TRUE), ChildrenEl(2), InEndpointEl>>}}

\* main() on inputs with nodes of every resolved kind
NextPhases ==
    \/ \E el \in PhaseElements(Len(nodes) + 1) : add_descriptors(el)
    \/ compile
    \/ Pipeline

SpecPhases == Init /\ [][NextPhases]_vars

\* An element no handler claims
UnknownEl == Element("bogus")

\* The k-th descriptor of a run: well nested (a byte, a foreach with an
\* echo), or holding an echo directly, an unknown element, a nested
\* descriptor, a byte under a foreach, or an element under a byte
SchemaElements(k) ==
    {DescriptorEl(t, IdPool[k], None, FALSE, cs) :
        t \in Types,
        cs \in {<<ByteEl("b", 1)>>,
                <<ForeachEl(1, FALSE, <<EchoEl("b")>>)>>,
                <<EchoEl("b")>>,
                <<ByteEl("b", 1), UnknownEl>>,
                <<ByteEl("b", 1), DescriptorEl(1, None, None, FALSE, <<>>)>>,
                <<ForeachEl(1, FALSE, <<ByteEl("b", 1)>>)>>,
                <<[ByteEl("b", 1) EXCEPT !.children = <<IndexEl>>]>>}}

\* main() on inputs with legal and illegal nestings
NextSchema ==
    \/ \E el \in SchemaElements(Len(nodes) + 1) : add_descriptors(el)
    \/ compile
    \/ Pipeline

SpecSchema == Init /\ [][NextSchema]_vars

\* The k-th descriptor of a run: of type 1 without parent, or of type 1 or 2
\* under IdPool[1]; it holds named content, and may hold a foreach over type
\* 1 or 2, associated or not, that echoes one or two names
ForeachElements(k) ==
    {DescriptorEl(tp[1], IdPool[k], tp[2], FALSE, cs) :
        tp \in {<<1, None>>, <<1, IdPool[1]>>, <<2, IdPool[1]>>},
        cs \in {<<ByteEl("b1", 1), HiddenEl("b2", 2, 3)>>,
                <<ByteEl("b1", 1), ForeachEl(1, FALSE, <<EchoEl("b1")>>)>>,
                <<ForeachEl(1, TRUE, <<EchoEl("b1"), EchoEl("b2")>>)>>,
                <<ByteEl("b2", 1), ForeachEl(2, TRUE, <<EchoEl("b2")>>)>>}}

\* main() on inputs with foreach nodes
NextForeach ==
    \/ \E el \in ForeachElements(Len(nodes) + 1) : add_descriptors(el)
    \/ compile
    \/ Pipeline

SpecForeach == Init /\ [][NextForeach]_vars

-----------------------------------------------------------------------------
(* Properties *)

\* The content nodes <<descriptor, child>> of the run
ContentNodes ==
    UNION {{<<o, j>> : j \in DOMAIN nodes[o].children} : o \in DOMAIN nodes}

NodesOfKind(kinds) ==
    {oj \in ContentNodes : nodes[oj[1]].children[oj[2]].kind \in kinds}

\* How many descriptors of the type of o were discovered before o
EarlierOfType(o) == Cardinality({p \in 1..(o - 1) : nodes[p].type = nodes[o].type})

\* C1: after indexing every descriptor has an index; the index of a
\* descriptor is the number of descriptors of its type discovered before it
\* (so the indices of a type are 0..count-1 in discovery order, however the
\* other types are interleaved), and an assigned index never changes.
C1_IndexDensity ==
    /\ [](\A o \in DOMAIN nodes : index[o] # Unset => index[o] = EarlierOfType(o))
    /\ [](pc \in {"resolve", "emit", "done"} =>
            \A o \in DOMAIN nodes : index[o] # Unset)
    /\ [][\A o \in DOMAIN index : index[o] # Unset => index'[o] = index[o]]_vars

\* Three descriptors whose types interleave were compiled and emitted
C1_Witness ==
    /\ pc = "done"
    /\ Len(nodes) = 3
    /\ nodes[1].type = nodes[3].type
    /\ nodes[2].type # nodes[1].type
    /\ index = <<0, 0, 1>>

\* C3: a resolved ref node holds the index of the descriptor whose id is its
\* refid, wherever that descriptor was declared.
C3_RefResolves ==
    \A oj \in NodesOfKind({"ref"}) :
        resolved[oj[1]][oj[2]].set =>
            /\ \E d \in DOMAIN nodes : nodes[d].id = nodes[oj[1]].children[oj[2]].refid
            /\ \A d \in DOMAIN nodes :
                nodes[d].id = nodes[oj[1]].children[oj[2]].refid =>
                    resolved[oj[1]][oj[2]].val = index[d]

\* A forward reference resolved to a nonzero index that is not the index of
\* the descriptor holding the ref
C3_Witness ==
    /\ pc = "done"
    /\ \E oj \in NodesOfKind({"ref"}) : \E d \in DOMAIN nodes :
        /\ d > oj[1]
        /\ nodes[d].id = nodes[oj[1]].children[oj[2]].refid
        /\ resolved[oj[1]][oj[2]].set
        /\ resolved[oj[1]][oj[2]].val = 1
        /\ index[oj[1]] = 0

\* o1 comes before o2 in discovery order
DiscoveredBefore(o1, o2) == o1 < o2

\* The first descriptor of the type of o, in discovery order
FirstOfType(o) == CHOOSE p \in DOMAIN nodes :
    /\ nodes[p].type = nodes[o].type
    /\ \A q \in DOMAIN nodes : nodes[q].type = nodes[o].type => p <= q

\* o1 comes before o2 in the builder's order: the types in the order of their
\* first descriptor, the descriptors of one type in discovery order
GroupedBefore(o1, o2) ==
    \/ FirstOfType(o1) < FirstOfType(o2)
    \/ nodes[o1].type = nodes[o2].type /\ o1 < o2

\* Endpoint numbers follow the order Before of the descriptors and the
\* declaration order within one descriptor
EndpointsFollow(Before(_, _)) ==
    \A x \in NodesOfKind({"inendpoint", "outendpoint"}) :
    \A y \in NodesOfKind({"inendpoint", "outendpoint"}) :
        /\ resolved[x[1]][x[2]].set
        /\ resolved[y[1]][y[2]].set
        /\ (Before(x[1], y[1]) \/ (x[1] = y[1] /\ x[2] < y[2]))
        => resolved[x[1]][x[2]].val < resolved[y[1]][y[2]].val

\* C10 as claimed: endpoint numbers follow discovery order, whatever the
\* types of the descriptors
C10_DiscoveryOrder == EndpointsFollow(DiscoveredBefore)

\* C10 amended: endpoint numbers follow the builder's order, which groups the
\* descriptors by type (types by first discovery, discovery order within a
\* type), and declaration order within one descriptor
C10_GroupedOrder == EndpointsFollow(GroupedBefore)

\* Endpoints were reserved in three descriptors whose types interleave
C10_Witness ==
    /\ pc = "done"
    /\ Len(nodes) = 3
    /\ nodes[1].type = nodes[3].type
    /\ nodes[2].type # nodes[1].type
    /\ \A o \in DOMAIN nodes : \E j \in DOMAIN nodes[o].children :
        nodes[o].children[j].kind = "inendpoint" /\ resolved[o][j].set

\* The content node whose post_parse the next step runs (pc = "resolve")
AtNode ==
    /\ pc = "resolve"
    /\ it <= Len(Items)
    /\ ci <= Len(nodes[Items[it][2]].children)

AtKind(kinds) ==
    AtNode /\ nodes[Items[it][2]].children[ci].kind \in kinds

\* The endpoint nodes whose post_parse has reserved an endpoint
Reserved ==
    {x \in NodesOfKind({"inendpoint", "outendpoint"}) : resolved[x[1]][x[2]].set}

\* The items of the array generated for the descriptor o
ContentOf(o) ==
    LET l == CHOOSE l \in DOMAIN output :
                output[l].kind = "content" /\ output[l].id = nodes[o].id
    IN  output[l].items

\* C2: with max_endpoints = M the counter never exceeds M and never
\* decreases; a reservation made when the counter is k-1 < M (the k-th call)
\* returns k-1 and one made when the counter is M raises the error; the
\* values handed out so far are 0..counter-1; an IN endpoint emits its value
\* with bit 0x80 set and an OUT endpoint its value itself.
C2_Endpoints ==
    /\ [](pc # "parse" =>
            /\ endpoint <= max_endpoints
            /\ Cardinality(Reserved) = endpoint
            /\ {resolved[x[1]][x[2]].val : x \in Reserved} = 0..(endpoint - 1))
    /\ [][/\ endpoint' >= endpoint
          /\ AtKind({"inendpoint", "outendpoint"}) =>
                LET o == Items[it][2] IN
                    IF endpoint < max_endpoints
                    THEN /\ resolved'[o][ci] = Resolved(endpoint, <<>>)
                         /\ endpoint' = endpoint + 1
                         /\ pc' = "resolve"
                    ELSE /\ pc' = "error"
                         /\ err' = "BadDefinitionError: Maximum number of endpoints exceeded"
                         /\ endpoint' = endpoint
                         /\ ~resolved'[o][ci].set]_vars
    /\ [](pc = "done" =>
            \A x \in Reserved :
                /\ Len(ContentOf(x[1])) = Len(nodes[x[1]].children)
                /\ ContentOf(x[1])[x[2]] =
                     Byte(resolved[x[1]][x[2]].val
                          + IF nodes[x[1]].children[x[2]].kind = "inendpoint"
                            THEN 128 ELSE 0))

\* With max_endpoints = 2 two reservations succeeded, an IN endpoint got 1,
\* and the third call raised
C2_Witness ==
    /\ pc = "error"
    /\ err = "BadDefinitionError: Maximum number of endpoints exceeded"
    /\ max_endpoints = 2
    /\ endpoint = 2
    /\ \E x \in Reserved :
        nodes[x[1]].children[x[2]].dir_in /\ resolved[x[1]][x[2]].val = 1

\* A run with max_endpoints = 3 emitted an IN endpoint numbered 2 as 0x82
C2_WitnessEmitted ==
    /\ pc = "done"
    /\ max_endpoints = 3
    /\ \E x \in Reserved : ContentOf(x[1])[x[2]] = Byte(130)

\* The ref node the next step resolves names an id no descriptor has
AtMissingRef ==
    /\ AtKind({"ref"})
    /\ \A d \in DOMAIN nodes : nodes[d].id # nodes[Items[it][2]].children[ci].refid

\* The endpoint node the next step resolves finds the allocator used up
AtExhausted == AtKind({"inendpoint", "outendpoint"}) /\ endpoint = max_endpoints

\* C9: a ref to an id no descriptor has, and a reservation with the counter
\* at max_endpoints, end the run with an error; a run that ended with an
\* error takes no further step and has printed nothing.
C9_FailFast ==
    /\ [][/\ AtMissingRef => pc' = "error" /\ err' = "AttributeError"
          /\ AtExhausted =>
                /\ pc' = "error"
                /\ err' = "BadDefinitionError: Maximum number of endpoints exceeded"
          /\ pc = "error" => FALSE]_vars
    /\ [](pc = "error" => output = <<>>)

\* The ninth IN endpoint failed with max_endpoints = 8 after the first eight
\* got 0..7 (emitted as 0x80..0x87); the first descriptor resolved completely
\* and nothing was printed
C9_Witness ==
    /\ pc = "error"
    /\ err = "BadDefinitionError: Maximum number of endpoints exceeded"
    /\ max_endpoints = 8
    /\ Cardinality(Reserved) = 8
    /\ {Endpoint_endpoint(x[1], x[2]) : x \in Reserved} = 128..135
    /\ \A j \in DOMAIN resolved[Items[1][2]] : resolved[Items[1][2]][j].set
    /\ Cardinality(NodesOfKind({"inendpoint"}) \ Reserved) >= 1
    /\ output = <<>>

\* The descriptors of type t, all of them or those whose parent id is id
OfType(t) == {d \in DOMAIN nodes : nodes[d].type = t}
ChildrenOf(t, id) == {d \in OfType(t) : nodes[d].parentid = id}

\* C4: a resolved count node of type T in descriptor P holds the number of
\* descriptors of type T whose parent id is P's id when associated is set,
\* and the number of all descriptors of type T when it is not.
C4_Count ==
    \A x \in NodesOfKind({"count"}) :
        LET n == nodes[x[1]].children[x[2]] IN
            resolved[x[1]][x[2]].set =>
                resolved[x[1]][x[2]].val =
                    IF n.associated
                    THEN Cardinality(ChildrenOf(n.type, nodes[x[1]].id))
                    ELSE Cardinality(OfType(n.type))

\* An associated count found one of the two descriptors of its type, and a
\* count that is not associated found both
C4_Witness ==
    /\ pc = "done"
    /\ \E x \in NodesOfKind({"count"}) :
        /\ nodes[x[1]].children[x[2]].associated
        /\ nodes[x[1]].id # None
        /\ resolved[x[1]][x[2]].val = 1
    /\ \E x \in NodesOfKind({"count"}) :
        /\ ~nodes[x[1]].children[x[2]].associated
        /\ resolved[x[1]][x[2]].val = 2

\* The number of bytes in a sequence of generated items
NumBytes(items) == Cardinality({i \in DOMAIN items : ~items[i].raw})

\* The bytes the array of descriptor o emits, and those of them that its
\* children-kind nodes contribute
EmittedBytes(o) == NumBytes(Descriptor_to_source(o))
NestedBytes(o) ==
    SumSeq([c \in DOMAIN nodes[o].children |->
        IF nodes[o].children[c].kind = "children"
        THEN NumBytes(NodeSource(o, c, Len(nodes))) ELSE 0])

\* C5: the value of the length node of a descriptor that got an array is the
\* number of bytes the array emits, less the bytes of its children-kind nodes
\* unless `all` is set.
C5_LengthIsEmitted ==
    pc = "done" =>
        \A x \in NodesOfKind({"length"}) :
            nodes[x[1]].top =>
                parent_length(x[1], x[2]) =
                    EmittedBytes(x[1])
                    - IF nodes[x[1]].children[x[2]].all THEN 0
                      ELSE NestedBytes(x[1])

\* The run compiled the scenario's descriptor alone
IsScenario ==
    /\ pc = "done"
    /\ nodes = <<Descriptor(DescriptorEl(1, "dev", None, FALSE, ScenarioChildren))>>
    /\ max_endpoints = 8

\* The scenario's results, with the value v for the length
ScenarioYields(v) ==
    /\ index[1] = 0
    /\ parent_length(1, 1) = v
    /\ ContentOf(1) = <<Byte(v), Byte(1), Byte(18), Byte(52), Byte(128)>>
    /\ Endpoint_endpoint(1, 5) = 128
    /\ Len(SelectSeq(output, LAMBDA l : l.kind \in {"row", "sentinel"})) = 2
    /\ output[Len(output) - 1].kind = "sentinel"
    /\ output[Len(output) - 2] = Line("row", 1, <<>>)

\* C6 as claimed: the scenario yields index 0, a length of 4, the endpoint
\* address 0x80 and a table of two rows
C6_ScenarioLength4 == IsScenario => ScenarioYields(4)

\* C6 amended: the scenario yields index 0, a length of 5 (the five one-byte
\* fields, the length field included), the endpoint address 0x80 and a table
\* of two rows
C6_ScenarioLength5 == IsScenario => ScenarioYields(5)

\* The scenario was compiled and printed
C6_Witness == IsScenario /\ Len(output) > 0

\* The ids of the lines of one kind, in the order of the output
IdsOf(kind) ==
    LET ls == SelectSeq(output, LAMBDA l : l.kind = kind) IN
        [k \in DOMAIN ls |-> ls[k].id]

\* How often x occurs in the sequence s
Occurrences(s, x) == Cardinality({k \in DOMAIN s : s[k] = x})

\* C7: the output of a successful run holds one array and one table row for
\* every descriptor with top set and none for the others, all arrays before
\* the table, the rows in the order of the arrays, and the all-zero sentinel
\* as the last row; without descriptors the table holds the sentinel alone.
C7_Output ==
    pc = "done" =>
        /\ \A d \in DOMAIN nodes :
            /\ Occurrences(IdsOf("array"), nodes[d].id) = IF nodes[d].top THEN 1 ELSE 0
            /\ Occurrences(IdsOf("row"), nodes[d].id) = IF nodes[d].top THEN 1 ELSE 0
        /\ Len(IdsOf("array")) = Cardinality({d \in DOMAIN nodes : nodes[d].top})
        /\ IdsOf("row") = IdsOf("array")
        /\ \E t \in DOMAIN output :
            /\ output[t].kind = "table"
            /\ \A l \in 1..(t - 1) : output[l].kind \in {"array", "content", "end"}
            /\ \A l \in (t + 1)..(Len(output) - 2) : output[l].kind = "row"
        /\ output[Len(output) - 1] =
             [kind |-> "sentinel", id |-> None, type |-> 0, index |-> 0,
              wIndex |-> 0, items |-> <<>>]
        /\ output[Len(output)].kind = "end"
        /\ nodes = <<>> => Len(output) = 3

\* Three descriptors of two types were emitted, one of them not top-level
C7_Witness ==
    /\ pc = "done"
    /\ Len(nodes) = 3
    /\ Cardinality({d \in DOMAIN nodes : nodes[d].top}) = 2
    /\ \E d \in DOMAIN nodes : nodes[d].top /\ nodes[d].parentid # None
    /\ \E d, e \in DOMAIN nodes : nodes[d].type # nodes[e].type

\* Two nodes of the run, descriptors or content nodes, carry the same id
SameIdTwice ==
    LET carriers == [kind : {"d"}, o : DOMAIN nodes, j : {0}]
                    \cup {[kind |-> "c", o |-> x[1], j |-> x[2]] : x \in ContentNodes}
        IdOf(c) == IF c.kind = "d" THEN nodes[c.o].id
                   ELSE nodes[c.o].children[c.j].id
    IN  \E c1, c2 \in carriers : c1 # c2 /\ IdOf(c1) # None /\ IdOf(c1) = IdOf(c2)

\* C8: a run in which two nodes carry the same id ends with the duplicate-id
\* error during indexing, before any post_parse runs.
C8_DuplicateIdFails ==
    SameIdTwice =>
        \/ pc \in {"parse", "index"}
        \/ pc = "error" /\ err = "BadDefinitionError: Duplicate descriptor id"

\* The kinds of node whose class overrides post_parse
HookKinds ==
    {"ref", "index", "count", "foreach", "children", "inendpoint", "outendpoint"}

\* Every descriptor of the input is in by_id and by_type and has its index
AllIndexed ==
    \A o \in DOMAIN nodes :
        /\ index[o] # Unset
        /\ DictHas(by_id, nodes[o].id) /\ DictGet(by_id, nodes[o].id) = o
        /\ \E i \in DOMAIN find_by_type(nodes[o].type) :
                find_by_type(nodes[o].type)[i] = o

\* The post_parse of the node x has run and stored its result
HookRan(x) == resolved[x[1]][x[2]].set

\* C11: while the resolution loop runs every descriptor is already in by_id
\* and by_type and has its index; the post_parse of a Ref, Index, Count,
\* Foreach, Children or Endpoint node runs only in that loop, on a node whose
\* hook has not run yet, and what it stored is never written again; a
\* compilation that gets to emission has run the hook of every such node; and
\* the lengths, which are computed during emission, are computed when every
\* Children and Foreach node has its matched descriptors.
C11_TwoPhase ==
    /\ [](pc = "resolve" => AllIndexed)
    /\ [][\A x \in ContentNodes :
            /\ HookRan(x) => resolved'[x[1]][x[2]] = resolved[x[1]][x[2]]
            /\ ~HookRan(x) /\ resolved'[x[1]][x[2]].set =>
                    AtKind(HookKinds) /\ x = <<Items[it][2], ci>>]_vars
    /\ [][AtKind(HookKinds) =>
            /\ ~HookRan(<<Items[it][2], ci>>)
            /\ pc' # "error" => resolved'[Items[it][2]][ci].set]_vars
    /\ [](pc \in {"emit", "done"} =>
            \A x \in NodesOfKind(HookKinds) : HookRan(x))
    /\ [][pc = "emit" =>
            \A x \in NodesOfKind({"children", "foreach"}) : HookRan(x)]_vars

\* A finished run over three descriptors holding nodes of every hooked kind
C11_Witness ==
    /\ pc = "done"
    /\ Len(nodes) = 3
    /\ \A k \in {"ref", "index", "count", "foreach", "children", "inendpoint"} :
            \E x \in NodesOfKind({k}) : HookRan(x)
    /\ \E x \in NodesOfKind({"foreach"}) : resolved[x[1]][x[2]].descs # <<>>

\* What a step of the resolution loop or of the emission leaves alone
FrameKept ==
    /\ UNCHANGED <<by_id, by_type, top, indexes, index>>
    /\ UNCHANGED <<nodes, descriptors, max_endpoints>>
    /\ endpoint' # endpoint => AtKind({"inendpoint", "outendpoint"})
    /\ \A x \in ContentNodes :
            resolved'[x[1]][x[2]] # resolved[x[1]][x[2]] =>
                AtNode /\ x = <<Items[it][2], ci>>

\* C12: a step of the resolution loop or of the emission leaves by_id,
\* by_type, top, the per-type next-index map, every descriptor's index, the
\* descriptors themselves and max_endpoints as they are; the endpoint counter
\* changes only in the post_parse of an endpoint node, and the only private
\* field a step writes is that of the node whose post_parse it runs.
C12_Frame ==
    [][(pc \in {"resolve", "emit"}) => FrameKept]_vars

\* A run that reserved two endpoints, resolved a reference and printed the
\* arrays of its top-level descriptors
C12_Witness ==
    /\ pc = "done"
    /\ endpoint = 2
    /\ Len(by_id) = 3
    /\ top # <<>>
    /\ \E x \in NodesOfKind({"ref"}) : HookRan(x)
    /\ \E l \in DOMAIN output : output[l].kind = "array"

\* The tags some handler claims
KnownTags == HasToSource \cup {"descriptor"}

\* A nesting <<parent tag, child tag>> that is not legal: an unknown tag, a
\* nested descriptor, an echo outside a foreach, anything but an echo in a
\* foreach, anything in an element that takes no children
IllegalNesting(p) ==
    \/ p[2] \notin KnownTags
    \/ p[2] = "descriptor"
    \/ p[2] = "echo" /\ p[1] # "foreach"
    \/ p[1] = "foreach" /\ p[2] # "echo"
    \/ p[1] \notin {"descriptor", "foreach"}

RECURSIVE Nestings(_)
\* The <<parent tag, child tag>> pairs of the elements nested below el
Nestings(el) ==
    UNION {{<<el.tag, el.children[i].tag>>} \cup Nestings(el.children[i]) :
             i \in DOMAIN el.children}

RECURSIVE NodeNestings(_, _)
\* The <<parent kind, child kind>> pairs of the nodes a node of kind `kind`
\* holds
NodeNestings(kind, children) ==
    UNION {{<<kind, children[i].kind>>}
           \cup NodeNestings(children[i].kind, children[i].children) :
             i \in DOMAIN children}

\* Nothing of the run has been indexed, resolved or emitted
NothingCompiled ==
    /\ by_id = <<>> /\ by_type = <<>> /\ top = <<>> /\ indexes = <<>>
    /\ \A o \in DOMAIN nodes : index[o] = Unset
    /\ \A x \in ContentNodes : ~HookRan(x)
    /\ endpoint = 0
    /\ output = <<>>

\* C13: the constructor raises on every element that holds an illegal
\* nesting at any depth, so no tree with such a nesting is ever built; the
\* run that raised ValueError has indexed, resolved and emitted nothing, and
\* takes no further step.
C13_IllegalChildAborts ==
    /\ [](\A el \in SchemaElements(Len(nodes) + 1) :
            (\E p \in Nestings(el) : IllegalNesting(p)) => ParseFails(el))
    /\ [](\A o \in DOMAIN nodes :
            \A p \in NodeNestings("descriptor", nodes[o].children) :
                ~IllegalNesting(p))
    /\ [](pc = "error" /\ err = "ValueError" => NothingCompiled)
    /\ [][pc # "error"]_vars

\* Two well-nested descriptors were parsed and the third element, with an
\* illegal child, aborted the run
C13_Witness ==
    /\ pc = "error"
    /\ err = "ValueError"
    /\ Len(nodes) = 2
    /\ \E o \in DOMAIN nodes : nodes[o].children[1].kind = "foreach"

\* No two descriptors carry the same id attribute (a descriptor without the
\* attribute carries none)
NoPresentIdTwice ==
    \A o1, o2 \in DOMAIN nodes :
        o1 # o2 /\ nodes[o1].id # None => nodes[o1].id # nodes[o2].id

\* C14: indexing a set of descriptors in which no two present ids are equal
\* never ends with the duplicate-id error, however many of the descriptors
\* have no id.
C14_AbsentIdsAccepted ==
    NoPresentIdTwice =>
        ~(pc = "error" /\ err = "BadDefinitionError: Duplicate descriptor id")

\* The descriptors a foreach node x is to match: those of its type, other
\* than the descriptor it is in, and under that descriptor when associated
ForeachMatches(x) ==
    LET n == nodes[x[1]].children[x[2]] IN
        {d \in DOMAIN nodes :
            /\ nodes[d].type = n.type
            /\ d # x[1]
            /\ n.associated => nodes[d].parentid = nodes[x[1]].id}

\* The sum of the lengths of the named children of the descriptors in ds
\* whose name is that of an echo child of the foreach node x
EchoedLen(x, ds) ==
    LET n == nodes[x[1]].children[x[2]] IN
        SumSeq([e \in DOMAIN n.children |->
            SumSeq([d \in DOMAIN nodes |->
                SumSeq([c \in DOMAIN nodes[d].children |->
                    LET cn == nodes[d].children[c] IN
                        IF /\ d \in ds
                           /\ cn.kind \in BinaryContent
                           /\ cn.name = n.children[e].name
                        THEN BinaryLen(cn) ELSE 0])])])

\* C15: once its post_parse ran, the matched sequence of a foreach node of
\* type T in descriptor P holds exactly the descriptors of type T other than
\* P, only those whose parentid is P's id when associated is set, each once
\* and in increasing index; and the node's length is the sum of the lengths
\* of the named children of those descriptors that an echo child names.
C15_Foreach ==
    \A x \in NodesOfKind({"foreach"}) :
        HookRan(x) =>
            LET descs == resolved[x[1]][x[2]].descs IN
                /\ {descs[i] : i \in DOMAIN descs} = ForeachMatches(x)
                /\ Len(descs) = Cardinality(ForeachMatches(x))
                /\ \A i, k \in DOMAIN descs :
                        i < k => index[descs[i]] < index[descs[k]]
                /\ NodeLen(x[1], x[2], Len(nodes)) =
                        EchoedLen(x, ForeachMatches(x))

\* A finished run in which an associated foreach over its own descriptor's
\* type matched two descriptors, left a third of that type out, and echoed
\* three bytes
C15_Witness ==
    /\ pc = "done"
    /\ \E x \in NodesOfKind({"foreach"}) :
        LET n == nodes[x[1]].children[x[2]] IN
            /\ HookRan(x)
            /\ n.type = nodes[x[1]].type
            /\ n.associated
            /\ Len(resolved[x[1]][x[2]].descs) = 2
            /\ NodeLen(x[1], x[2], Len(nodes)) >= 3

====
